---- MODULE Spec2Model ----
(***************************************************************************)
(* Python Link Shell Extension (src/link_shell.py): the link creators, the *)
(* link classifier, the elevation relaunch and the context-menu registry   *)
(* integration, over a small Windows filesystem.                           *)
(*                                                                         *)
(* Text is a sequence of tokens.  A token is one character the code tests  *)
(* or cuts at (":", "\", "?", " ", newline) or an indivisible word holding *)
(* none of them.  The localized literals of the source are written in      *)
(* ASCII: "zh:reparse-point" stands for the literal of line 113 and        *)
(* "zh:substitute-name" for the literal of line 149.                       *)
(***************************************************************************)
EXTENDS Naturals, Sequences, FiniteSets

VARIABLES fs, reg, admin, pc, argv, shell, last, calls

vars == <<fs, reg, admin, pc, argv, shell, last, calls>>

\* The number of handler calls of one run of the model.
MaxCalls == 2

-----------------------------------------------------------------------------
(* Text: Python's str operations used by the source *)

NL == "\n"
BS == "\\"
SP == " "

Whitespace == {SP, NL, "\t", "\r"}

\* sub in s
Contains(s, sub) ==
    \E i \in 1..(Len(s) + 1) :
        /\ i + Len(sub) - 1 <= Len(s)
        /\ SubSeq(s, i, i + Len(sub) - 1) = sub

\* s.startswith(p)
StartsWith(s, p) == Len(s) >= Len(p) /\ SubSeq(s, 1, Len(p)) = p

RECURSIVE LStrip(_)
LStrip(s) == IF s # <<>> /\ Head(s) \in Whitespace THEN LStrip(Tail(s)) ELSE s

RECURSIVE RStrip(_)
RStrip(s) ==
    IF s # <<>> /\ s[Len(s)] \in Whitespace THEN RStrip(SubSeq(s, 1, Len(s) - 1)) ELSE s

\* s.strip()
Strip(s) == RStrip(LStrip(s))

\* s.split(sep): the pieces between the occurrences of the token sep, the
\* empty pieces included; the empty text gives one empty piece.
Split(s, sep) ==
    LET at == {i \in 1..Len(s) : s[i] = sep}
        \* the position of the k-th separator; 0 before the first piece and
        \* Len(s) + 1 after the last
        pos(k) == IF k = 0 THEN 0
                  ELSE IF k > Cardinality(at) THEN Len(s) + 1
                  ELSE CHOOSE i \in at : Cardinality({j \in at : j <= i}) = k
    IN  [k \in 1..(Cardinality(at) + 1) |-> SubSeq(s, pos(k - 1) + 1, pos(k) - 1)]

\* Optional values: None is <<>>, a value v is <<v>>.
None == <<>>
Some(v) == <<v>>

-----------------------------------------------------------------------------
(* The filesystem *)

PF == <<"C", ":", BS, "f">>
PG == <<"C", ":", BS, "g">>
PD == <<"C", ":", BS, "d">>
PR == <<"C", ":", BS, "r">>
T1 == <<"C", ":", BS, "t">>
T3 == <<"D", ":", BS, "t">>

Paths == {PF, PG, PD, PR, T1, T3}

\* The order in which the volume lists names.
PathSeq == <<PF, PG, PD, PR, T1, T3>>

Drive(p) == p[1]

\* kind: absent, file, dir, symlink, junction (mount-point reparse tag),
\* reparse_dir (a directory with another reparse tag, e.g. a cloud placeholder)
Absent == [kind |-> "absent", id |-> 0, target |-> <<>>, tdir |-> FALSE]
PlainFile == [kind |-> "file", id |-> 1, target |-> <<>>, tdir |-> FALSE]
PlainDir == [kind |-> "dir", id |-> 0, target |-> <<>>, tdir |-> FALSE]
OtherReparseDir == [kind |-> "reparse_dir", id |-> 0, target |-> <<>>, tdir |-> FALSE]

SymlinkEntry(source, is_directory) ==
    [kind |-> "symlink", id |-> 0, target |-> source, tdir |-> is_directory]

JunctionEntry(source) ==
    [kind |-> "junction", id |-> 0, target |-> source, tdir |-> TRUE]

\* os.path.lexists: the path has a directory entry.
lexists(f, p) == p \in Paths /\ f[p].kind # "absent"

\* os.stat: the kind of what the path leads to, symbolic links and junctions
\* followed (at most n of them); "absent" when it leads nowhere, in a circle,
\* or through a link whose file/directory flag does not fit what it leads to.
RECURSIVE Stat(_, _, _)
Stat(f, p, n) ==
    IF p \notin Paths THEN "absent"
    ELSE LET e == f[p] IN
         IF e.kind \in {"symlink", "junction"}
         THEN IF n = 0 THEN "absent"
              ELSE LET k == Stat(f, e.target, n - 1) IN
                   IF e.tdir = (k \in {"dir", "reparse_dir"}) THEN k ELSE "absent"
         ELSE e.kind

isfile(f, p) == Stat(f, p, Cardinality(Paths)) = "file"
isdir(f, p) == Stat(f, p, Cardinality(Paths)) \in {"dir", "reparse_dir"}
exists(f, p) == Stat(f, p, Cardinality(Paths)) # "absent"
islink(f, p) == p \in Paths /\ f[p].kind = "symlink"

\* The names of the file the entry at p refers to.
Names(f, p) == {q \in Paths : f[q].kind = "file" /\ f[q].id = f[p].id}

-----------------------------------------------------------------------------
(* The OS primitives the creators call.  osok is the environment's part:  *)
(* FALSE when the OS refuses for a reason outside the filesystem contents  *)
(* (missing privilege, access denied, unsupported volume).                 *)

\* kernel32.CreateHardLinkW(target, source, None): a new name for the entry
\* at source (a symbolic link is linked itself, not followed).
CreateHardLinkW(f, target, source, osok) ==
    IF /\ osok
       /\ ~lexists(f, target)
       /\ lexists(f, source)
       /\ f[source].kind \in {"file", "symlink"}
       /\ Drive(source) = Drive(target)
    THEN [fs |-> [f EXCEPT ![target] = f[source]], ok |-> TRUE]
    ELSE [fs |-> f, ok |-> FALSE]

\* os.symlink(source, target, target_is_directory): raises when it fails.
os_symlink(f, source, target, is_directory, osok) ==
    IF osok /\ ~lexists(f, target)
    THEN [fs |-> [f EXCEPT ![target] = SymlinkEntry(source, is_directory)], ok |-> TRUE]
    ELSE [fs |-> f, ok |-> FALSE]

\* cmd /c mklink /J "target" "source": return code 0 on success.  A refusal
\* because of the volumes involved is part of osok.
mklink_J(f, source, target, osok) ==
    IF osok /\ ~lexists(f, target)
    THEN [fs |-> [f EXCEPT ![target] = JunctionEntry(source)], ok |-> TRUE]
    ELSE [fs |-> f, ok |-> FALSE]

-----------------------------------------------------------------------------
(* The creators *)

MsgNone == "none"
MsgNotAFile == "NotAFile"
MsgNotADirectory == "NotADirectory"
MsgSymlinkFailed == "SymlinkFailed"

Outcome(f, ok, msg, prim) == [fs |-> f, ok |-> ok, msg |-> msg, prim |-> prim]

\* create_hardlink without its os.path.isfile test
create_hardlink_unchecked(f, source, target, osok) ==
    LET r == CreateHardLinkW(f, target, source, osok) IN
    Outcome(r.fs, r.ok, MsgNone, TRUE)

create_hardlink(f, source, target, osok) ==
    IF isfile(f, source)
    THEN LET r == CreateHardLinkW(f, target, source, osok) IN
         Outcome(r.fs, r.ok, MsgNone, TRUE)
    ELSE Outcome(f, FALSE, MsgNotAFile, FALSE)

\* create_symlink that removes an existing target first
create_symlink_force(f, source, target, is_directory, osok) ==
    LET r == os_symlink([f EXCEPT ![target] = Absent], source, target, is_directory, osok) IN
    IF r.ok THEN Outcome(r.fs, TRUE, MsgNone, TRUE)
    ELSE Outcome(f, FALSE, MsgSymlinkFailed, TRUE)

create_symlink(f, source, target, is_directory, osok) ==
    LET r == os_symlink(f, source, target, is_directory, osok) IN
    IF r.ok THEN Outcome(r.fs, TRUE, MsgNone, TRUE)
    ELSE Outcome(r.fs, FALSE, MsgSymlinkFailed, TRUE)

create_junction(f, source, target, osok) ==
    IF isdir(f, source)
    THEN LET r == mklink_J(f, source, target, osok) IN
         Outcome(r.fs, r.ok, MsgNone, TRUE)
    ELSE Outcome(f, FALSE, MsgNotADirectory, FALSE)

-----------------------------------------------------------------------------
(* What the queried tools print.  build is the fsutil build: older builds  *)
(* misspell the offset and length labels ("Substitue"), newer ones do not. *)

Builds == {"typo", "fixed"}

\* What a metadata query does: "genuine" is the tool's answer for the path;
\* "raise" is subprocess.run raising; the others are text the tool prints
\* when it fails or is cut short.
QueryOutcomes == {"genuine", "raise", "err1", "err3", "truncated"}

Line(toks) == toks \o <<NL>>

NTPrefix == <<BS, "?", "?", BS>>

SubstituteLabel(build) == IF build = "typo" THEN "Substitue" ELSE "Substitute"

\* fsutil reparsepoint query <junction>
JunctionQuery(target, build) ==
       Line(<<"Reparse", SP, "Tag", SP, "Value", SP, ":", SP, "0xa0000003">>)
    \o Line(<<"Tag", SP, "value", ":", SP, "Microsoft">>)
    \o Line(<<"Tag", SP, "value", ":", SP, "Name", SP, "Surrogate">>)
    \o Line(<<"Tag", SP, "value", ":", SP, "Mount", SP, "Point">>)
    \o Line(<<SubstituteLabel(build), SP, "Name", SP, "offset", ":", SP, "0">>)
    \o Line(<<SubstituteLabel(build), SP, "Name", SP, "length", ":", SP, "16">>)
    \o Line(<<"Print", SP, "Name", SP, "offset", ":", SP, SP, SP, SP, SP, "18">>)
    \o Line(<<"Print", SP, "Name", SP, "Length", ":", SP, SP, SP, SP, SP, "8">>)
    \o Line(<<"Substitute", SP, "Name", ":", SP, SP, SP, SP, SP, SP, SP>> \o NTPrefix \o target)
    \o Line(<<"Print", SP, "Name", ":", SP, SP, SP, SP, SP, SP, SP, SP, SP, SP, SP, SP>> \o target)
    \o Line(<<>>)
    \o Line(<<"Reparse", SP, "Data", SP, "Length", ":", SP, "0x00000026">>)
    \o Line(<<"Reparse", SP, "Data", ":">>)
    \o Line(<<"0000", ":", SP, SP, "00", SP, "00", SP, "10", SP, "00">>)

\* fsutil reparsepoint query <directory with another reparse tag>
OtherTagQuery ==
       Line(<<"Reparse", SP, "Tag", SP, "Value", SP, ":", SP, "0x9000601a">>)
    \o Line(<<"Tag", SP, "value", ":", SP, "Microsoft">>)
    \o Line(<<"Tag", SP, "value", ":", SP, "Directory">>)
    \o Line(<<>>)
    \o Line(<<"Reparse", SP, "Data", SP, "Length", ":", SP, "0x00000008">>)
    \o Line(<<"Reparse", SP, "Data", ":">>)
    \o Line(<<"0000", ":", SP, SP, "01", SP, "00", SP, "00", SP, "00">>)

\* fsutil reparsepoint query <plain directory>
NotReparseText ==
    Line(<<"Error", ":", SP, SP, "The", SP, "file", SP, "or", SP, "directory", SP,
           "is", SP, "not", SP, "a", SP, "reparse", SP, "point", ".">>)

ReparseQuery(f, p, build) ==
    CASE f[p].kind = "junction" -> JunctionQuery(f[p].target, build)
      [] f[p].kind = "reparse_dir" -> OtherTagQuery
      [] OTHER -> NotReparseText

\* fsutil hardlink list <file>: one line per name, without the drive.
RECURSIVE ListNames(_, _)
ListNames(names, i) ==
    IF i > Len(PathSeq) THEN <<>>
    ELSE (IF PathSeq[i] \in names
          THEN Line(SubSeq(PathSeq[i], 3, Len(PathSeq[i])))
          ELSE <<>>) \o ListNames(names, i + 1)

HardlinkList(f, p) == ListNames(Names(f, p), 1)

ErrText1 == Line(<<"Error", ":", SP, SP, "Access", SP, "is", SP, "denied", ".">>)

ErrText3 ==
       Line(<<"Error", ":", SP, SP, "The", SP, "request", SP, "is", SP, "not", SP, "supported", ".">>)
    \o Line(<<"The", SP, "volume", SP, "does", SP, "not", SP, "support", SP, "the", SP, "query", ".">>)
    \o Line(<<"Usage", SP, ":", SP, "fsutil", SP, "<command>", SP, "<filename>">>)

TruncatedText == Line(<<"Reparse", SP, "Tag", SP, "Value", SP, ":">>)

\* result.stdout of a query that did not raise
Stdout(genuine, q) ==
    CASE q = "err1" -> ErrText1
      [] q = "err3" -> ErrText3
      [] q = "truncated" -> TruncatedText
      [] OTHER -> genuine

-----------------------------------------------------------------------------
(* The classifier *)

KindSymlink == "symlink"
KindJunction == "junction"
KindHardlink == "hardlink"
NoKind == "None"

mentions_reparse(out) ==
    Contains(out, <<"zh:reparse-point">>) \/ Contains(out, <<"Reparse">>)

\* the test of line 123 with 0 for 2
lists_any_name(out) == Len(Split(Strip(out), NL)) > 0

lists_hardlinks(out) == Len(Split(Strip(out), NL)) > 2

is_link(f, path, q, build) ==
    IF islink(f, path) THEN KindSymlink
    ELSE IF (isdir(f, path) \/ isfile(f, path)) /\ q = "raise" THEN NoKind
    ELSE IF isdir(f, path) /\ mentions_reparse(Stdout(ReparseQuery(f, path, build), q))
         THEN KindJunction
    ELSE IF isfile(f, path) /\ lists_hardlinks(Stdout(HardlinkList(f, path), q))
         THEN KindHardlink
    ELSE NoKind

\* Python's os.readlink: the name as given ("print"), or, from Python 3.8,
\* the substitute name of an absolute target in extended-length form ("ext").
PyBuilds == {"print", "ext"}

ExtPrefix == <<BS, BS, "?", BS>>

readlink(f, path, py) ==
    IF py = "ext" THEN ExtPrefix \o f[path].target ELSE f[path].target

mentions_substitute(line) ==
    Contains(line, <<"Substitute", SP, "Name">>) \/ Contains(line, <<"zh:substitute-name">>)

\* line.split(':')[-1].strip(), the leading \??\ removed
field_of(line) ==
    LET parts == Split(line, ":")
        target == Strip(parts[Len(parts)])
    IN  IF StartsWith(target, NTPrefix) THEN SubSeq(target, 5, Len(target)) ELSE target

RECURSIVE first_substitute(_, _)
first_substitute(lines, i) ==
    IF i > Len(lines) THEN None
    ELSE IF mentions_substitute(lines[i]) THEN Some(field_of(lines[i]))
    ELSE first_substitute(lines, i + 1)

\* get_link_target without its os.path.islink branch
get_link_target_no_islink(f, path, q, build, py) ==
    IF isdir(f, path) /\ q # "raise"
    THEN first_substitute(Split(Stdout(ReparseQuery(f, path, build), q), NL), 1)
    ELSE None

get_link_target(f, path, q, build, py) ==
    IF islink(f, path) THEN Some(readlink(f, path, py))
    ELSE IF isdir(f, path) /\ q = "raise" THEN None
    ELSE IF isdir(f, path)
         THEN first_substitute(Split(Stdout(ReparseQuery(f, path, build), q), NL), 1)
    ELSE None

-----------------------------------------------------------------------------
(* The registry: the four PythonLinkShell keys under HKEY_CLASSES_ROOT *)

KeyFile == "*\\shell\\PythonLinkShell"
KeyFileCmd == "*\\shell\\PythonLinkShell\\command"
KeyDir == "Directory\\shell\\PythonLinkShell"
KeyDirCmd == "Directory\\shell\\PythonLinkShell\\command"

Keys == {KeyFile, KeyFileCmd, KeyDir, KeyDirCmd}

\* The subkeys of a key among the four.
Subkeys(k) ==
    CASE k = KeyFile -> {KeyFileCmd}
      [] k = KeyDir -> {KeyDirCmd}
      [] OTHER -> {}

\* winreg.CreateKey creates or opens; winreg.DeleteKey raises for an absent
\* key and for a key that has subkeys.
RegCallFails(r, call) ==
    call[1] = "DeleteKey" /\ (call[2] \notin r \/ Subkeys(call[2]) \cap r # {})

RegApply(r, call) ==
    IF call[1] = "CreateKey" THEN r \cup {call[2]} ELSE r \ {call[2]}

\* The calls of a try block in order, up to the first that raises.
RECURSIVE RegRun(_, _, _, _)
RegRun(r, callseq, i, log) ==
    IF i > Len(callseq) THEN [reg |-> r, log |-> log, raised |-> FALSE]
    ELSE IF RegCallFails(r, callseq[i])
         THEN [reg |-> r, log |-> Append(log, callseq[i]), raised |-> TRUE]
    ELSE RegRun(RegApply(r, callseq[i]), callseq, i + 1, Append(log, callseq[i]))

IntegrateCalls ==
    << <<"CreateKey", KeyFile>>, <<"CreateKey", KeyFileCmd>>,
       <<"CreateKey", KeyDir>>, <<"CreateKey", KeyDirCmd>> >>

\* remove_from_context_menu without its directory keys
RemoveCallsFilesOnly ==
    << <<"DeleteKey", KeyFileCmd>>, <<"DeleteKey", KeyFile>> >>

RemoveCalls ==
    << <<"DeleteKey", KeyFileCmd>>, <<"DeleteKey", KeyFile>>,
       <<"DeleteKey", KeyDirCmd>>, <<"DeleteKey", KeyDir>> >>

check_integration(r) == KeyFile \in r

-----------------------------------------------------------------------------
(* The process: main, the form's handlers, the elevation relaunch *)

LinkTypes == {"hardlink", "symlink", "junction"}

\* sys.argv as parse_arguments reads it; "" and <<>> are an option not given.
\* No option, --source alone, and the twelve complete command lines below.
ArgvSet ==
    {[type |-> "", source |-> <<>>, target |-> <<>>],
     [type |-> "", source |-> PF, target |-> <<>>]}
    \cup [type : LinkTypes, source : {PF, PD}, target : {T1, PD}]

\* What the user leaves in the form's fields.
FormSources == {PF, PD, PR, T1, <<>>}
FormTargets == {T1, T3, PD, <<>>}
CheckPaths == Paths \cup {<<>>}

\* What the most recent handler call did.
NoCall ==
    [op |-> "none", type |-> "", src |-> <<>>, tgt |-> <<>>, elevated |-> FALSE,
     creator |-> "none", prim |-> FALSE, ok |-> FALSE, msg |-> MsgNone,
     relaunched |-> FALSE, q |-> "none", kind |-> NoKind, resolved |-> FALSE,
     target |-> None, shown |-> "none", reglog |-> <<>>]

\* The creator chosen for a link type, with the name of the creator called.
Dispatch(type, f, source, target, osok) ==
    CASE type = "hardlink" ->
             [creator |-> "create_hardlink", out |-> create_hardlink(f, source, target, osok)]
      [] type = "symlink" ->
             [creator |-> "create_symlink",
              out |-> create_symlink(f, source, target, isdir(f, source), osok)]
      [] OTHER ->
             [creator |-> "create_junction", out |-> create_junction(f, source, target, osok)]

Created(op, type, source, target, d) ==
    [NoCall EXCEPT !.op = op, !.type = type, !.src = source, !.tgt = target,
                   !.elevated = admin, !.creator = d.creator, !.prim = d.out.prim,
                   !.ok = d.out.ok, !.msg = d.out.msg]

\* run_as_admin in a process that is not elevated: ShellExecuteW "runas" with
\* the executable and sys.argv, then sys.exit(0).
RunAsAdmin(op, type, source, target) ==
    /\ shell' = Some(argv)
    /\ pc' = "exited"
    /\ last' = [NoCall EXCEPT !.op = op, !.type = type, !.src = source, !.tgt = target,
                              !.elevated = admin, !.relaunched = TRUE]
    /\ UNCHANGED <<fs, reg, admin, argv>>

\* main with nothing to do headlessly: the form opens.
MainForm ==
    /\ pc = "start"
    /\ argv.source = <<>> \/ argv.type = "" \/ argv.target = <<>>
    /\ pc' = "form"
    /\ UNCHANGED <<fs, reg, admin, argv, shell, last, calls>>

\* main with --type, --source and --target: the link is created, main returns.
MainHeadless ==
    /\ pc = "start"
    /\ calls < MaxCalls
    /\ argv.source # <<>> /\ argv.type # "" /\ argv.target # <<>>
    /\ \E osok \in BOOLEAN :
        \E d \in {Dispatch(argv.type, fs, argv.source, argv.target, osok)} :
        /\ fs' = d.out.fs
        /\ last' = Created("main", argv.type, argv.source, argv.target, d)
    /\ pc' = "exited"
    /\ calls' = calls + 1
    /\ UNCHANGED <<reg, admin, argv, shell>>

\* LinkShellApp.create_link, the form's fields as the user left them.
CreateLink ==
    /\ pc = "form"
    /\ calls < MaxCalls
    /\ calls' = calls + 1
    /\ \E link_type \in LinkTypes, source \in FormSources, target \in FormTargets :
        IF source = <<>> \/ target = <<>>
        THEN /\ last' = [NoCall EXCEPT !.op = "create_link", !.type = link_type,
                                       !.src = source, !.tgt = target,
                                       !.elevated = admin, !.msg = "MissingPaths"]
             /\ UNCHANGED <<fs, reg, admin, pc, argv, shell>>
        ELSE IF link_type \in {"symlink", "junction"} /\ ~admin
        THEN RunAsAdmin("create_link", link_type, source, target)
        ELSE \E osok \in BOOLEAN :
                \E d \in {Dispatch(link_type, fs, source, target, osok)} :
                /\ fs' = d.out.fs
                /\ last' = Created("create_link", link_type, source, target, d)
                /\ UNCHANGED <<reg, admin, pc, argv, shell>>

\* A path string as the OS takes it: extended-length prefix dropped, a path
\* without a drive put on the current drive.
OsPath(p) ==
    IF StartsWith(p, ExtPrefix) THEN SubSeq(p, 5, Len(p))
    ELSE IF StartsWith(p, <<BS>>) THEN <<"C", ":">> \o p
    ELSE p

\* LinkShellApp.check_link
CheckLink ==
    /\ pc = "form"
    /\ calls < MaxCalls
    /\ calls' = calls + 1
    /\ UNCHANGED <<fs, reg, admin, pc, argv, shell>>
    /\ \E path \in CheckPaths, q1 \in QueryOutcomes, build \in Builds :
        \E kind \in {is_link(fs, path, q1, build)} :
        LET base == [NoCall EXCEPT !.op = "check_link", !.src = path, !.elevated = admin]
        IN  IF path = <<>> THEN last' = [base EXCEPT !.msg = "MissingPath"]
            ELSE IF ~exists(fs, path) THEN last' = [base EXCEPT !.msg = "PathNotFound"]
            ELSE IF kind # NoKind
            THEN \E q2 \in QueryOutcomes, py \in PyBuilds :
                    \E target \in {get_link_target(fs, path, q2, build, py)} :
                    last' = [base EXCEPT !.q = q1, !.kind = kind, !.resolved = TRUE,
                                         !.target = target,
                                         !.shown = IF target = None \/ target = Some(<<>>)
                                                   THEN "link"
                                                   ELSE IF exists(fs, OsPath(target[1]))
                                                   THEN "link_target_exists"
                                                   ELSE "link_target_missing"]
            ELSE last' = [base EXCEPT !.q = q1, !.shown = "not_a_link"]

\* LinkShellApp.apply_settings: integrate_to_context_menu when the box is
\* checked, remove_from_context_menu when it is not.
ApplySettings ==
    /\ pc = "form"
    /\ calls < MaxCalls
    /\ calls' = calls + 1
    /\ \E integrate_var \in BOOLEAN :
        \E r \in {RegRun(reg, IF integrate_var THEN IntegrateCalls ELSE RemoveCalls, 1, <<>>)} :
        LET op == IF integrate_var THEN "integrate_to_context_menu"
                  ELSE "remove_from_context_menu"
        IN  IF ~admin THEN RunAsAdmin(op, "", <<>>, <<>>)
            ELSE /\ reg' = r.reg
                 /\ last' = [NoCall EXCEPT !.op = op, !.elevated = admin, !.ok = ~r.raised,
                                           !.msg = IF r.raised THEN "RegistryFailed"
                                                   ELSE "RegistryDone",
                                           !.reglog = r.log]
                 /\ UNCHANGED <<fs, admin, pc, argv, shell>>

\* The form is closed: mainloop returns and the process ends.
CloseForm ==
    /\ pc = "form"
    /\ pc' = "exited"
    /\ UNCHANGED <<fs, reg, admin, argv, shell, last, calls>>

\* The relaunch ShellExecuteW asked for starts: elevated, same arguments.
ElevatedStart ==
    /\ pc = "exited"
    /\ shell # None
    /\ admin' = TRUE
    /\ argv' = shell[1]
    /\ shell' = None
    /\ pc' = "start"
    /\ UNCHANGED <<fs, reg, last, calls>>

InitFs ==
    { [p \in Paths |->
          CASE p = PF -> PlainFile
            [] p = PG -> g
            [] p = PD -> PlainDir
            [] p = PR -> OtherReparseDir
            [] OTHER -> Absent] : g \in {Absent, PlainFile} }

Init ==
    /\ fs \in InitFs
    /\ reg = {}
    /\ admin \in BOOLEAN
    /\ pc = "start"
    /\ argv \in ArgvSet
    /\ shell = None
    /\ last = NoCall
    /\ calls = 0

Next ==
    \/ MainForm
    \/ MainHeadless
    \/ CreateLink
    \/ CheckLink
    \/ ApplySettings
    \/ CloseForm
    \/ ElevatedStart

Spec == Init /\ [][Next]_vars

-----------------------------------------------------------------------------
(* Properties *)

\* A path string with the extended-length prefix dropped.
NormPath(p) == IF StartsWith(p, ExtPrefix) THEN SubSeq(p, 5, Len(p)) ELSE p

\* The most recent call invoked the creator and it reported success.
Succeeded(creator) == last.creator = creator /\ last.ok

\* C1: after create_hardlink(F, T) succeeds for a regular file F, is_link(T)
\* returns the hard-link kind, also when the file then has exactly two names.
C1_HardlinkClassified ==
    (Succeeded("create_hardlink") /\ fs[last.src].kind = "file")
        => \A build \in Builds : is_link(fs, last.tgt, "genuine", build) = KindHardlink

\* C2: after create_junction(D, T) succeeds, is_link(T) returns the junction
\* kind and get_link_target(T) returns D: the \??\ prefix stripped, the drive
\* letter and the rest of the path intact.
C2_JunctionRoundTrip ==
    Succeeded("create_junction")
        => \A build \in Builds, py \in PyBuilds :
              /\ is_link(fs, last.tgt, "genuine", build) = KindJunction
              /\ get_link_target(fs, last.tgt, "genuine", build, py) = Some(last.src)

\* C3: after create_symlink(S, T, S is a directory) succeeds for an existing
\* S, is_link(T) returns the symbolic-link kind and get_link_target(T)
\* returns S up to path normalization, whatever the metadata tools would do.
C3_SymlinkRoundTrip ==
    (Succeeded("create_symlink") /\ last.src # last.tgt /\ exists(fs, last.src))
        => \A q \in QueryOutcomes, build \in Builds, py \in PyBuilds :
              /\ is_link(fs, last.tgt, q, build) = KindSymlink
              /\ \E t \in {get_link_target(fs, last.tgt, q, build, py)} :
                    t # None /\ NormPath(t[1]) = NormPath(last.src)

\* C3 witness: a symbolic link to the directory C:\d was just created.
C3_Witness ==
    /\ Succeeded("create_symlink")
    /\ last.src = PD
    /\ fs[last.tgt] = SymlinkEntry(PD, TRUE)

\* C4: a symbolic link or junction requested in a process that is not
\* elevated, through the form or through main's complete command line, makes
\* the process relaunch and exit without calling a creator.
C4_RelaunchBeforeCreate ==
    (/\ last.op \in {"create_link", "main"}
     /\ last.type \in {"symlink", "junction"}
     /\ last.src # <<>> /\ last.tgt # <<>>
     /\ ~last.elevated)
        => last.relaunched /\ last.creator = "none"

\* C5: create_hardlink on a directory fails with NotAFile and create_junction
\* on a regular file fails with NotADirectory; the OS primitive is not called,
\* the filesystem is unchanged, and a failure of the primitive itself never
\* shows either message.
C5_TypeErrors ==
    [][calls' # calls =>
          /\ (last'.creator = "create_hardlink" /\ isdir(fs, last'.src))
                => (~last'.ok /\ last'.msg = MsgNotAFile /\ ~last'.prim /\ fs' = fs)
          /\ (last'.creator = "create_junction" /\ isfile(fs, last'.src))
                => (~last'.ok /\ last'.msg = MsgNotADirectory /\ ~last'.prim /\ fs' = fs)
          /\ last'.prim => last'.msg \notin {MsgNotAFile, MsgNotADirectory}]_vars

\* C5 witness: create_hardlink was just refused for a directory source.
C5_Witness ==
    /\ last.creator = "create_hardlink"
    /\ isdir(fs, last.src)
    /\ last.msg = MsgNotAFile

\* C6: a creator called with a target that already exists reports failure and
\* leaves the filesystem as it was; a call that repeats the successful call
\* before it fails and changes nothing.
C6_ExistingTargetFails ==
    [][(calls' # calls /\ last'.creator # "none") =>
          /\ lexists(fs, last'.tgt) => (~last'.ok /\ fs' = fs)
          /\ (/\ last.ok
              /\ last'.creator = last.creator
              /\ last'.src = last.src
              /\ last'.tgt = last.tgt) => (~last'.ok /\ fs' = fs)]_vars

\* C6 witness: create_symlink just failed on a target that is already the
\* symbolic link it was asked to create.
C6_Witness ==
    /\ last.creator = "create_symlink"
    /\ ~last.ok
    /\ last.prim
    /\ fs[last.tgt].kind = "symlink"
    /\ fs[last.tgt].target = last.src

\* A file with exactly one name, or a directory with no reparse point.
Plain(f, p) ==
    /\ p \in Paths
    /\ \/ f[p].kind = "dir"
       \/ f[p].kind = "file" /\ Cardinality(Names(f, p)) = 1

\* C7: for a plain file with one name or a plain directory, with the metadata
\* tool answering for that path, is_link returns None and check_link reports
\* the path as not a link without calling get_link_target.
C7_PlainIsNotALink ==
    (last.op = "check_link" /\ last.q = "genuine" /\ Plain(fs, last.src))
        => /\ last.kind = NoKind
           /\ ~last.resolved
           /\ last.shown = "not_a_link"
           /\ \A build \in Builds : is_link(fs, last.src, "genuine", build) = NoKind

\* C7 witness: check_link just examined the plain file C:\f, its only name.
C7_Witness ==
    /\ last.op = "check_link"
    /\ last.q = "genuine"
    /\ last.src = PF
    /\ Names(fs, PF) = {PF}
    /\ last.shown = "not_a_link"

\* C8: whenever the metadata query of is_link fails, raises or prints
\* unexpected text, is_link returns None.
C8_FailedQueryIsNone ==
    (last.op = "check_link" /\ last.q \in QueryOutcomes \ {"genuine"})
        => last.kind = NoKind

\* C9: is_link returns the junction kind only for a directory that is not a
\* symbolic link and whose reparse point is tagged as a mount point (stated
\* for the query tool's own answer for the path).
C9_JunctionOnlyForMountPoint ==
    (last.op = "check_link" /\ last.q = "genuine" /\ last.kind = KindJunction)
        => fs[last.src].kind = "junction"

\* C10: from no key, after any completed integrate and remove calls of an
\* elevated process, all four keys exist or none does; remove deletes each
\* command subkey before its parent; check_integration is True exactly when
\* all four exist.
C10_RegistryAllOrNone ==
    /\ reg = {} \/ reg = Keys
    /\ check_integration(reg) <=> reg = Keys
    /\ last.op = "remove_from_context_menu" =>
          \A j \in DOMAIN last.reglog :
              \A k \in Subkeys(last.reglog[j][2]) :
                  \E i \in 1..(j - 1) : last.reglog[i] = <<"DeleteKey", k>>

\* C10 witness: remove_from_context_menu just deleted the four keys.
C10_Witness ==
    /\ last.op = "remove_from_context_menu"
    /\ last.ok
    /\ Len(last.reglog) = Len(RemoveCalls)
    /\ reg = {}

====
